---- MODULE Spec2Model ----
(***************************************************************************)
(* AstroTraderBot (src/bot.py): the indicator / signal / backtest pipeline *)
(* over a fetched close-price series, and the standalone run of the        *)
(* __main__ block.                                                         *)
(*                                                                         *)
(* Floating-point values are modelled as exact rationals [n, d] with d > 0 *)
(* in lowest terms, plus the three IEEE specials with d = 0: NaN (n = 0),  *)
(* +inf (n = 1) and -inf (n = -1).  Rounding is abstracted; the sign of a  *)
(* zero is not kept (the only place it shows, gain / -0.0 = -inf in        *)
(* calculate_rsi, yields the same RSI of 100 as gain / 0.0 = +inf).        *)
(* A column of a DataFrame is a sequence over the row positions 1..n; row  *)
(* i of the model is index i-1 of the source.  The bot asks the provider   *)
(* for the same ticker and date range on every fetch (src/bot.py:31-33,    *)
(* :46), so the index of a fetched table of n rows is the first n trading  *)
(* days of that range: two tables share the labels of their common rows,   *)
(* and pandas' alignment on labels is alignment on row positions.          *)
(***************************************************************************)
EXTENDS Integers, Sequences, FiniteSets, TLC

(***************************************************************************)
(* Program constants                                                       *)
(***************************************************************************)
\* rolling(window=50), src/bot.py:61
SMA_FAST == 50
\* rolling(window=200), src/bot.py:62
SMA_SLOW == 200
\* calculate_rsi(periods=14), src/bot.py:66 and :72
RSI_PERIODS == 14
\* RSI > 70 is overbought, src/bot.py:107
RSI_OVERBOUGHT == 70
\* RSI < 30 is oversold, src/bot.py:108
RSI_OVERSOLD == 30
\* the 100 of rsi = 100 - (100 / (1 + rs)), src/bot.py:84
RSI_SCALE == 100

(***************************************************************************)
(* Bounds of the model                                                     *)
(***************************************************************************)
\* longest freely enumerated close series
MaxLen == 2
\* close prices of the freely enumerated series are 1..MaxPrice
MaxPrice == 1
\* callers of calculate_rsi pass periods in 1..MaxPeriods (calculate_indicators
\* passes RSI_PERIODS)
MaxPeriods == 1
\* base price of the shaped (long) series
BasePrice == 100
\* calls of fetch_data in one behaviour
MaxFetches == 2

(***************************************************************************)
(* Floats                                                                  *)
(***************************************************************************)
Abs(x) == IF x < 0 THEN -x ELSE x

Sgn(x) == IF x > 0 THEN 1 ELSE IF x < 0 THEN -1 ELSE 0

RECURSIVE GCD(_, _)
GCD(a, b) == IF b = 0 THEN a ELSE GCD(b, a % b)

NaN == [n |-> 0, d |-> 0]

Inf == [n |-> 1, d |-> 0]

NegInf == [n |-> -1, d |-> 0]

\* the float n/d, d > 0, in lowest terms
Num(n, d) ==
    IF d = 1 THEN [n |-> n, d |-> 1]
    ELSE LET g == GCD(Abs(n), d)
         IN  [n |-> n \div g, d |-> d \div g]

FromInt(k) == [n |-> k, d |-> 1]

Zero == FromInt(0)

One == FromInt(1)

IsNaN(a) == a.d = 0 /\ a.n = 0

IsFinite(a) == a.d > 0

Neg(a) == [n |-> -a.n, d |-> a.d]

Add(a, b) ==
    IF IsNaN(a) \/ IsNaN(b) THEN NaN
    ELSE IF a.d = 0 /\ b.d = 0 THEN (IF a.n = b.n THEN a ELSE NaN)
    ELSE IF a.d = 0 THEN a
    ELSE IF b.d = 0 THEN b
    ELSE Num(a.n * b.d + b.n * a.d, a.d * b.d)

Sub(a, b) == Add(a, Neg(b))

Mul(a, b) ==
    IF IsNaN(a) \/ IsNaN(b) THEN NaN
    ELSE IF a.d = 0 \/ b.d = 0
         THEN (IF Sgn(a.n) * Sgn(b.n) = 0 THEN NaN
               ELSE [n |-> Sgn(a.n) * Sgn(b.n), d |-> 0])
    ELSE Num(a.n * b.n, a.d * b.d)

Div(a, b) ==
    IF IsNaN(a) \/ IsNaN(b) THEN NaN
    ELSE IF b.d = 0 THEN (IF a.d = 0 THEN NaN ELSE Zero)
    ELSE IF b.n = 0 THEN (IF a.n = 0 THEN NaN ELSE [n |-> Sgn(a.n), d |-> 0])
    ELSE IF a.d = 0 THEN [n |-> Sgn(a.n) * Sgn(b.n), d |-> 0]
    ELSE Num(a.n * b.d * Sgn(b.n), a.d * Abs(b.n))

\* a > b as floats: False when either is NaN
Gt(a, b) ==
    /\ ~IsNaN(a)
    /\ ~IsNaN(b)
    /\ IF a.d = 0 /\ b.d = 0 THEN a.n > b.n
       ELSE IF a.d = 0 THEN a.n > 0
       ELSE IF b.d = 0 THEN b.n < 0
       ELSE a.n * b.d > b.n * a.d

Lt(a, b) == Gt(b, a)

(***************************************************************************)
(* pandas Series operations used by the bot                                *)
(***************************************************************************)
\* Series.diff(): NaN in the first row, s[i] - s[i-1] after it
diff(s) ==
    [i \in 1..Len(s) |-> IF i = 1 THEN NaN ELSE Sub(s[i], s[i - 1])]

\* Series.shift(1): NaN in the first row, the previous row's value after it
shift(s) ==
    [i \in 1..Len(s) |-> IF i = 1 THEN NaN ELSE s[i - 1]]

\* Series.pct_change(): s / s.shift(1) - 1
pct_change(s) ==
    [i \in 1..Len(s) |-> Sub(Div(s[i], shift(s)[i]), One)]

\* delta.where(delta > 0, 0): rows where the test is False (NaN rows too) become 0
where_positive(s) ==
    [i \in 1..Len(s) |-> IF Gt(s[i], Zero) THEN s[i] ELSE Zero]

\* delta.where(delta < 0, 0)
where_negative(s) ==
    [i \in 1..Len(s) |-> IF Lt(s[i], Zero) THEN s[i] ELSE Zero]

\* carry + s[lo], carry + s[lo] + s[lo+1], ..., up to row hi: the running sum
\* a sliding window keeps, a NaN row adding nothing
RECURSIVE running_sum(_, _, _, _), running_sum_then(_, _, _, _)
running_sum(s, lo, hi, carry) ==
    IF lo > hi THEN <<>>
    ELSE IF lo = hi THEN <<IF IsNaN(s[lo]) THEN carry ELSE Add(carry, s[lo])>>
    ELSE running_sum_then(running_sum(s, lo, (lo + hi) \div 2, carry),
                          s, (lo + hi) \div 2 + 1, hi)

running_sum_then(left, s, lo, hi) ==
    left \o running_sum(s, lo, hi, left[Len(left)])

\* 1 for a row that holds an observation, 0 for a NaN row
observed(s) == [i \in 1..Len(s) |-> IF IsNaN(s[i]) THEN Zero ELSE One]

\* what the window of w rows ending at row i holds of a running total: the
\* rows added up to i less the rows removed up to i - w
in_window(total, w, i) ==
    IF i > w THEN Sub(total[i], total[i - w]) ELSE total[i]

\* the mean of a window, NaN while it holds fewer than minp observations
mean_of(sum, count, minp) ==
    IF count.n >= minp /\ count.n > 0 THEN Div(sum, count) ELSE NaN

window_means(sums, counts, w, minp) ==
    [i \in 1..Len(sums) |->
        mean_of(in_window(sums, w, i), in_window(counts, w, i), minp)]

\* a rolling mean with min_periods = 1
rolling_mean_min1(s, w) ==
    window_means(running_sum(s, 1, Len(s), Zero),
                 running_sum(observed(s), 1, Len(s), Zero), w, 1)

\* Series.rolling(window=w).mean(): min_periods defaults to the window
rolling_mean(s, w) ==
    window_means(running_sum(s, 1, Len(s), Zero),
                 running_sum(observed(s), 1, Len(s), Zero), w, w)

\* carry * s[lo], carry * s[lo] * s[lo+1], ..., a NaN row multiplying by 1
RECURSIVE running_product(_, _, _, _), running_product_then(_, _, _, _)
running_product(s, lo, hi, carry) ==
    IF lo > hi THEN <<>>
    ELSE IF lo = hi THEN <<IF IsNaN(s[lo]) THEN carry ELSE Mul(carry, s[lo])>>
    ELSE running_product_then(running_product(s, lo, (lo + hi) \div 2, carry),
                              s, (lo + hi) \div 2 + 1, hi)

running_product_then(left, s, lo, hi) ==
    left \o running_product(s, lo, hi, left[Len(left)])

\* Series.cumprod(), skipna: a NaN row stays NaN and is left out of the product
nan_where(s, p) == [i \in 1..Len(s) |-> IF IsNaN(s[i]) THEN NaN ELSE p[i]]

cumprod(s) == nan_where(s, running_product(s, 1, Len(s), One))

\* a * b of two Series: aligned on the union of the two indexes, NaN in a row
\* that either side lacks
aligned_mul(a, b) ==
    [i \in 1..(IF Len(a) > Len(b) THEN Len(a) ELSE Len(b)) |->
        IF i <= Len(a) /\ i <= Len(b) THEN Mul(a[i], b[i]) ELSE NaN]

\* Series.reindex to an index of n rows: NaN in a row the series lacks
reindex(s, n) == [i \in 1..n |-> IF i <= Len(s) THEN s[i] ELSE NaN]

\* 1 + s and s - 1, row by row
one_plus(s) == [i \in 1..Len(s) |-> Add(One, s[i])]

minus_one(s) == [i \in 1..Len(s) |-> Sub(s[i], One)]

(***************************************************************************)
(* The bot's two tables                                                    *)
(***************************************************************************)
\* self.data = None (src/bot.py:34)
NoData ==
    [isNone |-> TRUE, cols |-> {}, Close |-> <<>>, SMA_50 |-> <<>>,
     SMA_200 |-> <<>>, RSI |-> <<>>, Market_Return |-> <<>>]

\* the table yf.download returns for the close prices `closes`
Frame(closes) ==
    [isNone |-> FALSE, cols |-> {"Close"},
     Close |-> [i \in 1..Len(closes) |-> FromInt(closes[i])],
     SMA_50 |-> <<>>, SMA_200 |-> <<>>, RSI |-> <<>>, Market_Return |-> <<>>]

\* DataFrame.empty
IsEmpty(d) == Len(d.Close) = 0

\* self.signals = None (src/bot.py:35)
NoSignals ==
    [isNone |-> TRUE, cols |-> {}, n |-> 0, Signal |-> <<>>,
     SMA_Signal |-> <<>>, RSI_Signal |-> <<>>, Strategy_Return |-> <<>>,
     Cumulative_Strategy_Return |-> <<>>, Cumulative_Market_Return |-> <<>>]

\* pd.DataFrame(index=self.data.index): n rows, no column
EmptySignals(n) == [NoSignals EXCEPT !.isNone = FALSE, !.n = n]

\* a column of n zeros
Zeros(n) == [i \in 1..n |-> Zero]

\* DataFrame._ensure_valid_index: a table whose index is empty takes the index
\* of the first non-empty Series assigned to it, its columns filled with NaN
ensure_valid_index(sg, value) ==
    IF sg.n = 0 /\ Len(value) > 0
    THEN [sg EXCEPT
            !.n = Len(value),
            !.Signal = reindex(@, IF "Signal" \in sg.cols THEN Len(value) ELSE 0),
            !.SMA_Signal =
                reindex(@, IF "SMA_Signal" \in sg.cols THEN Len(value) ELSE 0),
            !.RSI_Signal =
                reindex(@, IF "RSI_Signal" \in sg.cols THEN Len(value) ELSE 0),
            !.Strategy_Return =
                reindex(@, IF "Strategy_Return" \in sg.cols THEN Len(value) ELSE 0),
            !.Cumulative_Strategy_Return =
                reindex(@, IF "Cumulative_Strategy_Return" \in sg.cols
                           THEN Len(value) ELSE 0),
            !.Cumulative_Market_Return =
                reindex(@, IF "Cumulative_Market_Return" \in sg.cols
                           THEN Len(value) ELSE 0)]
    ELSE sg

\* the column `name` of a table set to `value` reindexed to the table's index
put_column(sg, name, value) ==
    [sg EXCEPT !.cols = @ \cup {name}, ![name] = reindex(value, sg.n)]

\* self.signals[name] = value, value a Series
with_column(sg, name, value) ==
    put_column(ensure_valid_index(sg, value), name, value)

IndicatorCols == {"SMA_50", "SMA_200", "RSI"}

(***************************************************************************)
(* Failures                                                                *)
(***************************************************************************)
ExcNone == "none"

\* what the data provider may raise inside yf.download
ProviderErrors == {"ConnectionError"}

\* a handler that logs and returns normally
Reraise_swallowed(e) == ExcNone

\* `except Exception as e: logging.error(...); raise`: the handler every
\* operation wraps its body in passes the failure on unchanged
Reraise(e) == e

(***************************************************************************)
(* calculate_rsi and calculate_indicators                                  *)
(***************************************************************************)
\* -s, row by row
negated(s) == [i \in 1..Len(s) |-> Neg(s[i])]

\* gain = delta.where(delta > 0, 0).rolling(window=periods).mean()
rolling_gain(close, periods) ==
    rolling_mean(where_positive(diff(close)), periods)

\* loss = -delta.where(delta < 0, 0).rolling(window=periods).mean()
rolling_loss(close, periods) ==
    negated(rolling_mean(where_negative(diff(close)), periods))

\* rs = gain / loss ; rsi = 100 - (100 / (1 + rs))
rsi_value(gain, loss) ==
    Sub(FromInt(RSI_SCALE), Div(FromInt(RSI_SCALE), Add(One, Div(gain, loss))))

rsi_from(gain, loss) ==
    [i \in 1..Len(gain) |-> rsi_value(gain[i], loss[i])]

rsi_series(close, periods) ==
    rsi_from(rolling_gain(close, periods), rolling_loss(close, periods))

\* what calculate_rsi raises: self.data['Close'] on None is a TypeError
calculate_rsi_exc(d) == IF d.isNone THEN "TypeError" ELSE ExcNone

\* the body of calculate_rsi: [exc, value]
calculate_rsi_body(d, periods) ==
    [exc |-> calculate_rsi_exc(d),
     value |-> IF d.isNone THEN <<>> ELSE rsi_series(d.Close, periods)]

\* the simple moving average column of window w
sma(close, w) == rolling_mean(close, w)

\* what calculate_indicators raises: a rolling mean over a series shorter
\* than its window is a column of NaN, not a failure
calculate_indicators_exc(d) ==
    IF d.isNone THEN "TypeError" ELSE calculate_rsi_exc(d)

\* the body of calculate_indicators: [exc, data]
calculate_indicators_body(d) ==
    [exc |-> calculate_indicators_exc(d),
     data |-> IF d.isNone THEN d
              ELSE [d EXCEPT !.cols = @ \cup IndicatorCols,
                             !.SMA_50 = sma(d.Close, SMA_FAST),
                             !.SMA_200 = sma(d.Close, SMA_SLOW),
                             !.RSI = calculate_rsi_body(d, RSI_PERIODS).value]]

(***************************************************************************)
(* generate_signals                                                        *)
(***************************************************************************)
\* self.signals[col][mask] = val: a chained assignment.  With pandas'
\* Copy-on-Write (the default from pandas 3.0, an option before it) the
\* write lands on a temporary copy and the column keeps its values; without
\* it the write lands in the column.  The source pins no pandas version.
mask_assign(col, mask, val, cow) ==
    IF cow THEN col
    ELSE [i \in 1..Len(col) |-> IF mask[i] THEN val ELSE col[i]]

\* no normalisation: the raw score
normalize_raw(x) == x

\* lambda x: 1 if x > 0 else (-1 if x < 0 else 0)
normalize(x) ==
    IF Gt(x, Zero) THEN One ELSE IF Lt(x, Zero) THEN FromInt(-1) ELSE Zero

sma_signal(d, cow) ==
    LET n == Len(d.Close)
        up == [i \in 1..n |-> Gt(d.SMA_50[i], d.SMA_200[i])]
        down == [i \in 1..n |-> Lt(d.SMA_50[i], d.SMA_200[i])]
    IN  mask_assign(mask_assign(Zeros(n), up, One, cow), down, FromInt(-1), cow)

rsi_signal(d, cow) ==
    LET n == Len(d.Close)
        overbought == [i \in 1..n |-> Gt(d.RSI[i], FromInt(RSI_OVERBOUGHT))]
        oversold == [i \in 1..n |-> Lt(d.RSI[i], FromInt(RSI_OVERSOLD))]
    IN  mask_assign(mask_assign(Zeros(n), overbought, FromInt(-1), cow),
                    oversold, One, cow)

combine(smaSig, rsiSig) ==
    [i \in 1..Len(smaSig) |-> normalize(Add(smaSig[i], rsiSig[i]))]

\* self.signals = pd.DataFrame(index=self.data.index) with the columns
\* Signal and SMA_Signal set to 0 (src/bot.py:97-101)
started_signals(n) ==
    [EmptySignals(n) EXCEPT !.cols = {"Signal", "SMA_Signal"},
                            !.Signal = Zeros(n),
                            !.SMA_Signal = Zeros(n)]

\* the SMA masks written and RSI_Signal set to 0 (src/bot.py:102-106)
with_sma_signal(sg, d, cow) ==
    [sg EXCEPT !.SMA_Signal = sma_signal(d, cow),
               !.cols = @ \cup {"RSI_Signal"},
               !.RSI_Signal = Zeros(sg.n)]

\* the RSI masks written (src/bot.py:107-108)
with_rsi_signal(sg, d, cow) == [sg EXCEPT !.RSI_Signal = rsi_signal(d, cow)]

\* the combined, normalised signal (src/bot.py:111-114)
with_signal(sg) == [sg EXCEPT !.Signal = combine(sg.SMA_Signal, sg.RSI_Signal)]

\* the body of generate_signals: [exc, signals].  A failure part-way leaves
\* the columns written before it in self.signals.
generate_signals_body(d, sg, cow) ==
    IF d.isNone THEN [exc |-> "AttributeError", signals |-> sg]
    ELSE IF ~({"SMA_50", "SMA_200"} \subseteq d.cols)
    THEN [exc |-> "KeyError", signals |-> started_signals(Len(d.Close))]
    ELSE IF "RSI" \notin d.cols
    THEN [exc |-> "KeyError",
          signals |-> with_sma_signal(started_signals(Len(d.Close)), d, cow)]
    ELSE [exc |-> ExcNone,
          signals |->
              with_signal(
                  with_rsi_signal(
                      with_sma_signal(started_signals(Len(d.Close)), d, cow),
                      d, cow))]

(***************************************************************************)
(* backtest_strategy                                                       *)
(***************************************************************************)
\* the signal of the same row, not lagged
strategy_return_same_bar(signal, marketReturn) ==
    aligned_mul(signal, marketReturn)

\* self.signals['Signal'].shift(1) * self.data['Market_Return']
strategy_return(signal, marketReturn) ==
    aligned_mul(shift(signal), marketReturn)

\* (1 + returns).cumprod() - 1
cumulative_return(returns) == minus_one(cumprod(one_plus(returns)))

\* the returns written over the Close column
with_market_return_over_close(d) ==
    [d EXCEPT !.cols = @ \cup {"Market_Return"},
              !.Market_Return = pct_change(d.Close),
              !.Close = pct_change(d.Close)]

\* self.data['Market_Return'] = self.data['Close'].pct_change()
with_market_return(d) ==
    [d EXCEPT !.cols = @ \cup {"Market_Return"},
              !.Market_Return = pct_change(d.Close)]

\* the three columns backtest_strategy writes to self.signals, in order
with_strategy_return(sg, d) ==
    with_column(sg, "Strategy_Return",
                strategy_return(sg.Signal, d.Market_Return))

with_cumulative_strategy_return(sg) ==
    with_column(sg, "Cumulative_Strategy_Return",
                cumulative_return(sg.Strategy_Return))

with_cumulative_market_return(sg, d) ==
    with_column(sg, "Cumulative_Market_Return",
                cumulative_return(d.Market_Return))

\* backtest_strategy from its second line on, d the table with Market_Return
backtest_signals(d, sg) ==
    IF sg.isNone THEN [exc |-> "TypeError", data |-> d, signals |-> sg]
    ELSE IF "Signal" \notin sg.cols
    THEN [exc |-> "KeyError", data |-> d, signals |-> sg]
    ELSE [exc |-> ExcNone, data |-> d,
          signals |->
              with_cumulative_market_return(
                  with_cumulative_strategy_return(with_strategy_return(sg, d)),
                  d)]

\* the body of backtest_strategy: [exc, data, signals].  self.signals may have
\* been generated from an earlier fetch than the one self.data now holds.
backtest_strategy_body(d, sg) ==
    IF d.isNone THEN [exc |-> "TypeError", data |-> d, signals |-> sg]
    ELSE backtest_signals(with_market_return(d), sg)

(***************************************************************************)
(* Inputs: what the data provider returns                                  *)
(***************************************************************************)
\* every close series of up to MaxLen rows over the prices 1..MaxPrice
ShortSeries == UNION {[1..k -> 1..MaxPrice] : k \in 0..MaxLen}

\* n rows at BasePrice, moved by d1 from row k1 on, by d2 from row k2 on and by
\* d3 from row k3 on
Shaped(n, k1, d1, k2, d2, k3, d3) ==
    [i \in 1..n |-> BasePrice + (IF i >= k1 THEN d1 ELSE 0)
                              + (IF i >= k2 THEN d2 ELSE 0)
                              + (IF i >= k3 THEN d3 ELSE 0)]

\* a rise, then a small fall and a rise in the last two rows; and its mirror
Shapes(n) ==
    {Shaped(n, n - 20, 10, n - 1, -1, n, 10),
     Shaped(n, n - 20, -10, n - 1, 1, n, -10)}

\* a flat series
Flat(n) == Shaped(n, n, 0, n, 0, n, 0)

\* series just past the RSI period
MidLen == RSI_PERIODS + 1

MidSeries == {Flat(MidLen)} \cup Shapes(MidLen)

\* series just past the slow window
LongLen == SMA_SLOW + 1

LongSeries == Shapes(LongLen)

\* the first rising shape
Rising(n) == Shaped(n, n - 20, 10, n - 1, -1, n, 10)

\* series on either side of each window: one row short of the fast window,
\* just past it (and short of the slow one), just past the slow one
WindowLens == {SMA_FAST - 1, SMA_FAST + 1, LongLen}

WindowSeries == {Rising(n) : n \in WindowLens}

\* the tables the provider may return: of a listing younger than the slow
\* window, of one older than it, or of one of any age
CloseSeries(listed) ==
    IF listed = "long" THEN LongSeries
    ELSE IF listed = "any" THEN WindowSeries
    ELSE ShortSeries \cup MidSeries

Periods == 1..MaxPeriods

(***************************************************************************)
(* State                                                                   *)
(***************************************************************************)
VARIABLES
    listing,      \* "short", "long" or "any": how far back the ticker's history goes
    run,          \* "script": the __main__ block drives the bot; "api": any caller does
    copyOnWrite,  \* whether the installed pandas runs in Copy-on-Write mode
    data,         \* self.data
    signals,      \* self.signals
    source,       \* history: the table the last fetch_data stored, as it was stored
    fetches,      \* history: the calls of fetch_data so far
    inStep,       \* history: generate_signals has completed on the stored table
    indicatorsExc, \* history: the failure calculate_indicators last raised on the stored table
    ret,          \* the series the last call returned (calculate_rsi), with its periods
    bodyExc,      \* the failure raised inside the body of the last call
    raised,       \* the failure its caller received
    pc,           \* script: the next stage of the __main__ block, or "done"
    outcome,      \* script: what the run reported
    trace         \* script: the stages the run has called, in order

vars == <<listing, run, copyOnWrite, data, signals, source, fetches, inStep,
          indicatorsExc, ret, bodyExc, raised, pc, outcome, trace>>

NoRet == [periods |-> 0, value |-> <<>>]

\* the test without its emptiness half
MainHasData_not_none(d) == ~d.isNone

\* `if bot.data is not None and not bot.data.empty` (src/bot.py:210)
MainHasData(d) == ~d.isNone /\ ~IsEmpty(d)

\* the __main__ block after `stage` returned or raised `exc` to it: the next
\* stage and the report.  okIndex: whether strategy_returns[-1] finds a row
\* (an integer key on a date-indexed Series is a position in pandas < 3 and a
\* label, hence a KeyError, from 3.0).
MainAfter(stage, exc, d, okIndex) ==
    IF exc # ExcNone THEN [pc |-> "done", outcome |-> "error"]
    ELSE IF stage = "fetch_data"
         THEN (IF MainHasData(d)
               THEN [pc |-> "generate_signals", outcome |-> "running"]
               ELSE [pc |-> "done", outcome |-> "no_data"])
    ELSE IF stage = "generate_signals"
         THEN [pc |-> "backtest_strategy", outcome |-> "running"]
    ELSE IF stage = "backtest_strategy"
         THEN [pc |-> "plot_performance", outcome |-> "running"]
    ELSE IF stage = "plot_performance"
         THEN [pc |-> "execute_trades", outcome |-> "running"]
    ELSE IF okIndex THEN [pc |-> "done", outcome |-> "returns"]
    ELSE [pc |-> "done", outcome |-> "error"]

\* the bot starts with no data and no signals (src/bot.py:31-35); the script
\* starts at its first stage
Start(listed) ==
    /\ listing = listed
    /\ run \in {"script", "api"}
    /\ copyOnWrite \in BOOLEAN
    /\ data = NoData
    /\ signals = NoSignals
    /\ source = NoData
    /\ fetches = 0
    /\ inStep = FALSE
    /\ indicatorsExc = ExcNone
    /\ ret = NoRet
    /\ bodyExc = ExcNone
    /\ raised = ExcNone
    /\ pc = IF run = "script" THEN "fetch_data" ELSE "api"
    /\ outcome = "running"
    /\ trace = <<>>

Init == Start("short")

InitLong == Start("long")

InitWindows == Start("any")

\* who may call `stage` now: the script at that stage, or any other caller
Callable(stage) == IF run = "script" THEN pc = stage ELSE TRUE

\* the call of `stage` ended with `exc` raised in its body: what the caller
\* receives and, in the script, where the __main__ block goes next
Returned(stage, exc, d, okIndex) ==
    /\ bodyExc' = exc
    /\ raised' = Reraise(exc)
    /\ IF run = "script"
       THEN LET m == MainAfter(stage, Reraise(exc), d, okIndex)
            IN  /\ pc' = m.pc
                /\ outcome' = m.outcome
                /\ trace' = Append(trace, stage)
       ELSE UNCHANGED <<pc, outcome, trace>>
    /\ UNCHANGED <<listing, run, copyOnWrite>>

(***************************************************************************)
(* Operations                                                              *)
(***************************************************************************)
\* fetch_data: the provider returns a table (empty or not), which replaces
\* self.data, or raises, which leaves it; self.signals is not touched
fetch_data ==
    /\ Callable("fetch_data")
    /\ fetches < MaxFetches
    /\ fetches' = fetches + 1
    /\ \/ \E closes \in CloseSeries(listing) :
            /\ data' = Frame(closes)
            /\ source' = Frame(closes)
            /\ inStep' = FALSE
            /\ indicatorsExc' = ExcNone
            /\ Returned("fetch_data", ExcNone, Frame(closes), TRUE)
       \/ \E e \in ProviderErrors :
            /\ UNCHANGED <<data, source, inStep, indicatorsExc>>
            /\ Returned("fetch_data", e, data, TRUE)
    /\ ret' = NoRet
    /\ UNCHANGED signals

\* calculate_indicators has ended with r, the result of its body
calculate_indicators_ends(r) ==
    /\ data' = r.data
    /\ indicatorsExc' = r.exc
    /\ Returned("calculate_indicators", r.exc, data, TRUE)

calculate_indicators ==
    /\ run = "api"
    /\ calculate_indicators_ends(calculate_indicators_body(data))
    /\ ret' = NoRet
    /\ UNCHANGED <<signals, source, fetches, inStep>>

\* calculate_rsi(periods) has ended with r, the result of its body
calculate_rsi_ends(periods, r) ==
    /\ ret' = IF r.exc = ExcNone
              THEN [periods |-> periods, value |-> r.value]
              ELSE NoRet
    /\ Returned("calculate_rsi", r.exc, data, TRUE)

calculate_rsi ==
    /\ run = "api"
    /\ \E periods \in Periods :
         calculate_rsi_ends(periods, calculate_rsi_body(data, periods))
    /\ UNCHANGED <<data, signals, source, fetches, inStep, indicatorsExc>>

\* generate_signals has ended with r, the result of its body
generate_signals_ends(r) ==
    /\ signals' = r.signals
    /\ inStep' = (r.exc = ExcNone)
    /\ Returned("generate_signals", r.exc, data, TRUE)

generate_signals ==
    /\ Callable("generate_signals")
    /\ generate_signals_ends(generate_signals_body(data, signals, copyOnWrite))
    /\ ret' = NoRet
    /\ UNCHANGED <<data, source, fetches, indicatorsExc>>

\* backtest_strategy has ended with r, the result of its body
backtest_strategy_ends(r) ==
    /\ data' = r.data
    /\ signals' = r.signals
    /\ Returned("backtest_strategy", r.exc, data, TRUE)

backtest_strategy ==
    /\ Callable("backtest_strategy")
    /\ backtest_strategy_ends(backtest_strategy_body(data, signals))
    /\ ret' = NoRet
    /\ UNCHANGED <<source, fetches, inStep, indicatorsExc>>

\* plot_performance: rendering is external; it shows the figure or fails
plot_performance ==
    /\ Callable("plot_performance")
    /\ \E e \in {ExcNone, "ImportError"} :
         Returned("plot_performance", e, data, TRUE)
    /\ ret' = NoRet
    /\ UNCHANGED <<data, signals, source, fetches, inStep, indicatorsExc>>

\* execute_trades: a placeholder that logs; in the script the summary lines
\* after it (src/bot.py:224-227) end the run
execute_trades ==
    /\ Callable("execute_trades")
    /\ \E okIndex \in BOOLEAN :
         Returned("execute_trades", ExcNone, data, okIndex)
    /\ ret' = NoRet
    /\ UNCHANGED <<data, signals, source, fetches, inStep, indicatorsExc>>

Next ==
    \/ fetch_data
    \/ calculate_indicators
    \/ calculate_rsi
    \/ generate_signals
    \/ backtest_strategy
    \/ plot_performance
    \/ execute_trades

Spec == Init /\ [][Next]_vars

SpecLong == InitLong /\ [][Next]_vars

SpecWindows == InitWindows /\ [][Next]_vars

(***************************************************************************)
(* Properties                                                              *)
(***************************************************************************)
Rows(col) == 1..Len(col)

InRange(x, lo, hi) ==
    IsFinite(x) /\ ~Lt(x, FromInt(lo)) /\ ~Gt(x, FromInt(hi))

\* an RSI series of `periods` over `close` as the claim C1 describes it
RsiAsClaimed(close, periods, rsi) ==
    \A i \in Rows(rsi) :
        i >= periods + 1 =>
            /\ InRange(rsi[i], 0, RSI_SCALE)
            /\ (rolling_gain(close, periods)[i] = Zero
                  /\ rolling_loss(close, periods)[i] = Zero)
               => rsi[i] = FromInt(50)

\* C1: every RSI value at an index >= periods is a number in [0, 100], and is
\* 50 where the rolling gain and the rolling loss are both 0; never NaN.
C1_RsiDefinedInRange ==
    /\ ret.periods > 0 => RsiAsClaimed(data.Close, ret.periods, ret.value)
    /\ "RSI" \in data.cols => RsiAsClaimed(data.Close, RSI_PERIODS, data.RSI)

\* backtest_strategy has completed on the signals table
Backtested == "Cumulative_Market_Return" \in signals.cols

\* C2: after backtest_strategy on the signals generated from the stored
\* series both cumulative curves are numbers at every row and are 0 in the
\* first row.
C2_CumulativeDefinedFromZero ==
    (Backtested /\ inStep) =>
        \A i \in 1..signals.n :
            /\ IsFinite(signals.Cumulative_Strategy_Return[i])
            /\ IsFinite(signals.Cumulative_Market_Return[i])
            /\ i = 1 => /\ signals.Cumulative_Strategy_Return[i] = Zero
                        /\ signals.Cumulative_Market_Return[i] = Zero

\* (Close[i] - Close[i-1]) / Close[i-1]
MarketReturnAt(close, i) == Div(Sub(close[i], close[i - 1]), close[i - 1])

\* backtest_strategy has completed on the stored series: a fetch drops the
\* Market_Return column and generate_signals the backtest columns
BacktestedOnStored == Backtested /\ "Market_Return" \in data.cols

\* C3: after backtest_strategy the strategy return of every row after the
\* first is the signal of the row before it times the market return of the
\* row: a one-bar lag, the row's own signal never used.  A row of the signals
\* table that the stored series does not have has no market return.
C3_StrategyReturnLagsOneBar ==
    BacktestedOnStored =>
        \A i \in 2..signals.n :
            signals.Strategy_Return[i] =
                IF i <= Len(source.Close)
                THEN Mul(signals.Signal[i - 1], MarketReturnAt(source.Close, i))
                ELSE NaN

\* a backtested row whose return is not 0 and whose own signal differs from
\* the lagged one
C3_Witness ==
    /\ BacktestedOnStored
    /\ \E i \in 2..signals.n :
          /\ i <= Len(source.Close)
          /\ signals.Signal[i] # signals.Signal[i - 1]
          /\ signals.Strategy_Return[i] # Zero
          /\ signals.Strategy_Return[i] =
                Mul(signals.Signal[i - 1], MarketReturnAt(source.Close, i))

\* generate_signals has completed on the signals table
Generated == {"SMA_Signal", "RSI_Signal"} \subseteq signals.cols

\* the signals table holds what generate_signals wrote: no other operation
\* has written to it, or backtest_strategy has, against the series the
\* signals were generated from
AsGenerated == Generated /\ (inStep \/ ~Backtested)

\* C4: after generate_signals the combined signal of every row is in
\* {-1, 0, 1} and is the sign of the sum of the two sub-signals: agreeing
\* sub-signals give +1 or -1, never +2 or -2, and disagreeing ones give 0.
C4_SignalIsSignOfSum ==
    AsGenerated =>
        \A i \in 1..signals.n :
            LET score == Add(signals.SMA_Signal[i], signals.RSI_Signal[i])
            IN  /\ signals.Signal[i] \in {FromInt(-1), Zero, One}
                /\ Gt(score, Zero) => signals.Signal[i] = One
                /\ Lt(score, Zero) => signals.Signal[i] = FromInt(-1)
                /\ score = Zero => signals.Signal[i] = Zero

\* a row where both sub-signals are +1 and the combined signal is +1
C4_Witness ==
    /\ AsGenerated
    /\ \E i \in 1..signals.n :
          /\ signals.SMA_Signal[i] = One
          /\ signals.RSI_Signal[i] = One
          /\ signals.Signal[i] = One

\* C5: in the standalone run generate_signals is never executed before the
\* indicator columns are attached, nor backtest_strategy before
\* generate_signals has produced the signals.
C5_StagesInOrder ==
    run = "script" =>
        \A j \in 1..Len(trace) :
            /\ trace[j] = "generate_signals" => IndicatorCols \subseteq data.cols
            /\ trace[j] = "backtest_strategy" => Generated

\* C6: when the provider returns an empty table the standalone run ends in
\* the "no data" report: fetch_data has not failed and no other stage has run;
\* the report is given for no other run.
C6_EmptyResultIsNoData ==
    run = "script" =>
        /\ (~source.isNone /\ IsEmpty(source)) =>
              /\ raised = ExcNone
              /\ trace = <<"fetch_data">>
              /\ pc = "done"
              /\ outcome = "no_data"
              /\ data = source
              /\ signals = NoSignals
        /\ outcome = "no_data" => (~source.isNone /\ IsEmpty(source))

C6_Witness ==
    /\ run = "script"
    /\ ~source.isNone
    /\ IsEmpty(source)
    /\ outcome = "no_data"

\* the SMA sub-signal the claim C7 describes
SmaSignalAsClaimed(d, i) ==
    IF Gt(d.SMA_50[i], d.SMA_200[i]) THEN One
    ELSE IF Lt(d.SMA_50[i], d.SMA_200[i]) THEN FromInt(-1)
    ELSE Zero

\* C7: after generate_signals on the stored series the SMA sub-signal of
\* every row is +1 where SMA_50 > SMA_200, -1 where SMA_50 < SMA_200, 0 where
\* they are equal or either is undefined.
C7_SmaSubSignal ==
    (Generated /\ inStep) =>
        \A i \in 1..signals.n : signals.SMA_Signal[i] = SmaSignalAsClaimed(data, i)

\* C8: the failure raised in the body of an operation is the failure its
\* caller receives; in the standalone run a failed stage ends the run in the
\* error report, with no stage after it.
C8_FailuresPropagate ==
    /\ raised = bodyExc
    /\ (run = "script" /\ bodyExc # ExcNone) =>
          /\ pc = "done"
          /\ outcome = "error"
    /\ (run = "script" /\ outcome = "error") => pc = "done"

\* the standalone run that failed in generate_signals
C8_Witness ==
    /\ run = "script"
    /\ bodyExc = "KeyError"
    /\ raised = "KeyError"
    /\ trace = <<"fetch_data", "generate_signals">>
    /\ outcome = "error"

\* the sum of the integer closes of rows lo..hi
RECURSIVE CloseSum(_, _, _)
CloseSum(close, lo, hi) ==
    IF lo > hi THEN 0
    ELSE IF lo = hi THEN close[lo].n
    ELSE CloseSum(close, lo, (lo + hi) \div 2)
           + CloseSum(close, (lo + hi) \div 2 + 1, hi)

\* column `col` is the moving average of window w over close: NaN before the
\* window fills, the mean of the first w closes in row w, and in every later
\* row the mean of the row before with close[i - w] replaced by close[i]
IsMovingAverage(col, close, w) ==
    /\ Len(col) = Len(close)
    /\ \A i \in Rows(col) :
          IF i < w THEN IsNaN(col[i])
          ELSE /\ IsFinite(col[i])
               /\ IF i = w
                  THEN col[i].n * w = col[i].d * CloseSum(close, 1, w)
                  ELSE (col[i].n * col[i - 1].d - col[i - 1].n * col[i].d) * w
                         = (close[i].n - close[i - w].n) * col[i].d * col[i - 1].d

\* both averages are on the table and are the moving averages of the stored
\* closes
AveragesAsClaimed ==
    /\ IsMovingAverage(data.SMA_50, source.Close, SMA_FAST)
    /\ IsMovingAverage(data.SMA_200, source.Close, SMA_SLOW)

\* column `col` has a row for every close and no value in any of them
AllUndefined(col, close) ==
    /\ Len(col) = Len(close)
    /\ \A i \in Rows(col) : IsNaN(col[i])

\* calculate_indicators has completed on the stored table
Indicated == {"SMA_50", "SMA_200"} \subseteq data.cols

\* C9: each moving average of calculate_indicators is undefined in the rows
\* before its window fills and is the mean of the last w closes after that;
\* on a series shorter than the window every row is undefined, and no call
\* of calculate_indicators on a stored series, however short, has raised.
C9_SmaIsWindowMean ==
    /\ Indicated =>
          /\ AveragesAsClaimed
          /\ Len(data.Close) < SMA_FAST => AllUndefined(data.SMA_50, source.Close)
          /\ Len(data.Close) < SMA_SLOW => AllUndefined(data.SMA_200, source.Close)
    /\ ~data.isNone => indicatorsExc = ExcNone

\* a series between the two windows, after calculate_indicators returned
\* without a failure: the fast average has no value before its window fills
\* and has one from there on, the slow one has no value in any row
C9_Witness ==
    /\ Indicated
    /\ indicatorsExc = ExcNone
    /\ Len(data.Close) >= SMA_FAST
    /\ Len(data.Close) < SMA_SLOW
    /\ IsNaN(data.SMA_50[SMA_FAST - 1])
    /\ IsFinite(data.SMA_50[SMA_FAST])
    /\ IsFinite(data.SMA_50[Len(data.Close)])
    /\ data.SMA_50[Len(data.Close)] # data.SMA_50[SMA_FAST]
    /\ AllUndefined(data.SMA_200, data.Close)

====
